---- MODULE Spec2Model ----
(***************************************************************************)
(* Game Finder: the /api/search handler of src/main.py.  One request is    *)
(* followed from its raw query parameter through normalize_query, the four *)
(* source adapters (Epic, itch.io, Steam, Internet Archive) and the        *)
(* preview loop, to the response or the HTTP 400 rejection.                *)
(*                                                                         *)
(* Strings are sequences of one-character strings.  URLs are sequences of  *)
(* tokens: a literal prefix of the source is one token, the query's        *)
(* percent-encoding contributes one token per output character.            *)
(***************************************************************************)
EXTENDS Integers, Sequences, FiniteSets, TLC

\* ------------------------------------------------------------------ bounds
MaxLen == 4        \* longest raw query parameter explored exhaustively
MaxItems == 4      \* longest listing of an upstream response in the flow
MaxElems == 2      \* longest listing of a response with malformed items
MaxWait == 2       \* longest time one network call is waited for (below the timeout)

\* ------------------------------------------------------- characters, text
Letters == {"a", "A"}
Whitespace == {" ", "\t"}
Chars == Letters \cup Whitespace

StrUpTo(alphabet, n) == UNION {[1..k -> alphabet] : k \in 0..n}

\* str.isspace / the regex class \s
IsSpace(c) == c \in Whitespace

\* str.lower, one character
LowerChar(c) == IF c = "A" THEN "a" ELSE IF c = "B" THEN "b" ELSE c

\* str.lower
Lower(s) == [i \in 1..Len(s) |-> LowerChar(s[i])]

\* the Python operator `needle in hay` on strings
Contains(needle, hay) ==
  \E i \in 0..(Len(hay) - Len(needle)) :
     SubSeq(hay, i + 1, i + Len(needle)) = needle

\* query.lower() in title.lower()
Matches(query, title) == Contains(Lower(query), Lower(title))

\* faulty variant, re.sub(r"\s", " ", s): every whitespace character becomes a space
ReSubEachSpace(s) == [i \in 1..Len(s) |-> IF IsSpace(s[i]) THEN " " ELSE s[i]]

\* re.sub(r"\s+", " ", s): every maximal run of whitespace becomes one space
RECURSIVE ReSubSpaces(_)
ReSubSpaces(s) ==
  IF s = <<>> THEN <<>>
  ELSE IF IsSpace(Head(s))
       THEN IF Len(s) > 1 /\ IsSpace(s[2])
            THEN ReSubSpaces(Tail(s))
            ELSE <<" ">> \o ReSubSpaces(Tail(s))
       ELSE <<Head(s)>> \o ReSubSpaces(Tail(s))

\* str.strip(chars): drop the leading and the trailing characters of `drop`
RECURSIVE LStrip(_, _)
LStrip(s, drop) ==
  IF s # <<>> /\ Head(s) \in drop THEN LStrip(Tail(s), drop) ELSE s

RECURSIVE RStrip(_, _)
RStrip(s, drop) ==
  IF s # <<>> /\ s[Len(s)] \in drop
  THEN RStrip(SubSeq(s, 1, Len(s) - 1), drop) ELSE s

StripChars(s, drop) == RStrip(LStrip(s, drop), drop)

\* str.strip()
Strip(s) == StripChars(s, Whitespace)

\* faulty variant: the .strip() is left out
normalize_query_nostrip(q) == ReSubSpaces(q)

\* re.sub(r"\s+", " ", q).strip()
normalize_query(q) == Strip(ReSubSpaces(q))

\* faulty variant: the slice is left out
limited_all(items, limit) == items

\* items[:limit]
limited(items, limit) ==
  SubSeq(items, 1, IF Len(items) < limit THEN Len(items) ELSE limit)

\* urllib.parse.quote, one character: letters are kept, the rest is %XX
QuoteChar(c) ==
  CASE c = " "  -> <<"%", "2", "0">>
    [] c = "\t" -> <<"%", "0", "9">>
    [] c = "/"  -> <<"/">>
    [] OTHER    -> <<c>>

\* urllib.parse.quote
RECURSIVE quote(_)
quote(s) == IF s = <<>> THEN <<>> ELSE QuoteChar(Head(s)) \o quote(Tail(s))

\* ------------------------------------------------------------ JSON values
\* a field of an upstream item: absent, null, or a string
JAbsent == [kind |-> "absent", str |-> <<>>]
JNull == [kind |-> "null", str |-> <<>>]
JStr(s) == [kind |-> "str", str |-> s]

\* Python truthiness of a field fetched with .get(): a non-empty string
Truthy(v) == v.kind = "str" /\ v.str # <<>>

\* ------------------------------------------------------ upstream responses
\* requests.get raising, the timeout expiring, raise_for_status raising
FailureKinds == {"network_error", "timeout", "http_status"}
\* r.json() raising as well, for the two JSON sources
JsonFailureKinds == FailureKinds \cup {"bad_json"}

Failure(kind) == [kind |-> kind, body |-> <<>>]
Ok(body) == [kind |-> "ok", body |-> body]
NotYet == [kind |-> "none", body |-> <<>>]

\* the preview length passed to limited
PreviewLimit == 3

\* ---------------------------------------------------------- Epic adapter
EPIC_SOURCE == "Epic Games Store (Free Now)"
EPIC_MORE_URL == <<"https://store.epicgames.com/en-US/free-games">>

PromotionsNull == [kind |-> "null", offers |-> <<>>]
\* a promotions object; offers is its "promotionalOffers" list (absent, null
\* and [] all read as []), each entry the entry's own "promotionalOffers"
Promotions(offers) == [kind |-> "obj", offers |-> offers]

\* faulty variant: a later entry counts as well
EpicIsFreeNowAnyEntry(el) ==
  /\ el.promotions.kind = "obj"
  /\ \E i \in 1..Len(el.promotions.offers) : el.promotions.offers[i] # <<>>

\* is_free_now
EpicIsFreeNow(el) ==
  /\ el.promotions.kind = "obj"
  /\ el.promotions.offers # <<>>
  /\ el.promotions.offers[1] # <<>>

\* el.get("title", "").strip() raises AttributeError on a null title
EpicElementRaises(el) == el.title.kind = "null"

EpicTitle(el) == Strip(el.title.str)

EpicLink(el) ==
  LET product_slug == IF Truthy(el.productSlug) THEN el.productSlug
                      ELSE el.urlSlug
  IN IF Truthy(product_slug)
     THEN <<"https://store.epicgames.com/en-US/p/">>
            \o StripChars(product_slug.str, {"/"})
     ELSE <<"https://store.epicgames.com/free-games">>

EpicIsHit(el, query) ==
  /\ EpicTitle(el) # <<>>
  /\ Matches(query, EpicTitle(el))
  /\ EpicIsFreeNow(el)

RECURSIVE EpicHits(_, _)
EpicHits(elements, query) ==
  IF elements = <<>> THEN <<>>
  ELSE LET el == Head(elements)
       IN (IF EpicIsHit(el, query)
           THEN <<[title |-> EpicTitle(el), url |-> EpicLink(el)]>>
           ELSE <<>>) \o EpicHits(Tail(elements), query)

EpicRaises(resp) ==
  \/ resp.kind # "ok"
  \/ \E i \in 1..Len(resp.body) : EpicElementRaises(resp.body[i])

search_epic_free_games(query, resp) ==
  IF EpicRaises(resp)
  THEN [source |-> EPIC_SOURCE, more_url |-> EPIC_MORE_URL,
        hits |-> <<>>, total_hits |-> 0]
  ELSE LET hits == EpicHits(resp.body, query)
       IN [source |-> EPIC_SOURCE, more_url |-> EPIC_MORE_URL,
           hits |-> hits, total_hits |-> Len(hits)]

\* ------------------------------------------------------- itch.io adapter
ITCH_SOURCE == "itch.io (Free)"

ItchSearchUrl(query) == <<"https://itch.io/games/free?q=">> \o quote(query)

\* a card: title_el is absent or carries text; link_el is absent, carries
\* no href (null) or carries one
ItchIsHit(item, query) ==
  /\ item.title_el.kind # "absent"
  /\ item.link_el.kind # "absent"
  /\ Strip(item.title_el.str) # <<>>
  /\ Truthy(item.link_el)
  /\ Matches(query, Strip(item.title_el.str))

RECURSIVE ItchHits(_, _)
ItchHits(items, query) ==
  IF items = <<>> THEN <<>>
  ELSE LET item == Head(items)
       IN (IF ItchIsHit(item, query)
           THEN <<[title |-> Strip(item.title_el.str), url |-> item.link_el.str]>>
           ELSE <<>>) \o ItchHits(Tail(items), query)

search_itch_free(query, resp) ==
  IF resp.kind # "ok"
  THEN [source |-> ITCH_SOURCE, more_url |-> ItchSearchUrl(query),
        hits |-> <<>>, total_hits |-> 0]
  ELSE LET hits == ItchHits(resp.body, query)
       IN [source |-> ITCH_SOURCE, more_url |-> ItchSearchUrl(query),
           hits |-> hits, total_hits |-> Len(hits)]

\* --------------------------------------------------------- Steam adapter
STEAM_SOURCE == "Steam (Free to Play)"

SteamSearchUrl(query) ==
  <<"https://store.steampowered.com/search/?term=">> \o quote(query)
    \o <<"&price=free">>

\* a result row: title_el is absent or carries text; href is null or a string
SteamIsHit(row, query) ==
  /\ row.title_el.kind # "absent"
  /\ Strip(row.title_el.str) # <<>>
  /\ Truthy(row.href)
  /\ Matches(query, Strip(row.title_el.str))

RECURSIVE SteamHits(_, _)
SteamHits(rows, query) ==
  IF rows = <<>> THEN <<>>
  ELSE LET row == Head(rows)
       IN (IF SteamIsHit(row, query)
           THEN <<[title |-> Strip(row.title_el.str), url |-> row.href.str]>>
           ELSE <<>>) \o SteamHits(Tail(rows), query)

\* faulty variant: the except branch without its more_url
SteamFailureNoUrl(query) ==
  [source |-> STEAM_SOURCE, more_url |-> <<>>, hits |-> <<>>, total_hits |-> 0]

\* the except branch
SteamFailure(query) ==
  [source |-> STEAM_SOURCE, more_url |-> SteamSearchUrl(query),
   hits |-> <<>>, total_hits |-> 0]

search_steam_free(query, resp) ==
  IF resp.kind # "ok"
  THEN SteamFailure(query)
  ELSE LET hits == SteamHits(resp.body, query)
       IN [source |-> STEAM_SOURCE, more_url |-> SteamSearchUrl(query),
           hits |-> hits, total_hits |-> Len(hits)]

\* ------------------------------------------------------- Archive adapter
ARCHIVE_SOURCE == "Internet Archive (Software)"
MEDIATYPE_FILTER == <<"&and[]=mediatype%3A%22software%22">>

ArchiveSearchPage(query) ==
  <<"https://archive.org/search.php?query=">> \o quote(query)

\* more_url of the try branch
ArchiveMoreUrl(query) == ArchiveSearchPage(query) \o MEDIATYPE_FILTER

\* more_url of the except branch
ArchiveFailureMoreUrl(query) == ArchiveSearchPage(query)

ArchiveIsHit(d, query) == Truthy(d.title) /\ Matches(query, d.title.str)

\* f"https://archive.org/details/{d.get('identifier')}"
ArchiveLink(d) ==
  <<"https://archive.org/details/">>
    \o (IF d.identifier.kind = "str" THEN d.identifier.str ELSE <<"None">>)

RECURSIVE ArchiveHits(_, _)
ArchiveHits(docs, query) ==
  IF docs = <<>> THEN <<>>
  ELSE LET d == Head(docs)
       IN (IF ArchiveIsHit(d, query)
           THEN <<[title |-> d.title.str, url |-> ArchiveLink(d)]>>
           ELSE <<>>) \o ArchiveHits(Tail(docs), query)

search_internet_archive(query, resp) ==
  IF resp.kind # "ok"
  THEN [source |-> ARCHIVE_SOURCE, more_url |-> ArchiveFailureMoreUrl(query),
        hits |-> <<>>, total_hits |-> 0]
  ELSE LET hits == ArchiveHits(resp.body, query)
       IN [source |-> ARCHIVE_SOURCE, more_url |-> ArchiveMoreUrl(query),
           hits |-> hits, total_hits |-> Len(hits)]

\* ---------------------------------------------------------- search_games
\* src["preview"] = limited(src.get("hits", []), 3)
AddPreview(src) ==
  [source |-> src.source, more_url |-> src.more_url, hits |-> src.hits,
   total_hits |-> src.total_hits,
   preview |-> limited(src.hits, PreviewLimit)]

\* faulty variant: sources without hits are filtered out
OrderedNonEmpty(srcs) ==
  LET kept == SelectSeq(srcs, LAMBDA src : src.total_hits > 0)
  IN [i \in 1..Len(kept) |-> AddPreview(kept[i])]

\* the loop building `ordered`: every source, in the order of `sources`
Ordered(srcs) == [i \in 1..Len(srcs) |-> AddPreview(srcs[i])]

Adapters == <<"epic", "itch", "steam", "archive">>
AdapterSet == {Adapters[i] : i \in 1..Len(Adapters)}
NoResponse == [query |-> <<>>, sources |-> <<>>]

VARIABLES
  q,         \* the raw query parameter of the request
  query,     \* normalize_query(q)
  pc,        \* where the handler stands
  status,    \* HTTP status of the reply, 0 while none is sent
  calls,     \* the outbound network calls issued so far, in order
  inflight,  \* the adapters whose network call has not yet returned
  waited,    \* time each adapter's network call took
  clock,     \* time since the request arrived
  upstream,  \* what each adapter's network call came back with
  sources,   \* the list `sources` as the adapters return
  response   \* the body returned to the caller

vars == <<q, query, pc, status, calls, inflight, waited, clock, upstream,
          sources, response>>

\* ------------------------------------------------------------ environment
SampleQueries ==
  {<<>>, <<"\t", " ">>, <<"a">>, <<"A", "a">>, <<" ", "A", "\t", "\t", "a", " ">>}

Repeat(x, n) == [i \in 1..n |-> x]

\* one failure, one empty listing
MinimalResponses == {Failure("network_error"), Ok(<<>>)}

FlowEpicElement ==
  [title |-> JStr(<<"A", "a", "b">>), promotions |-> Promotions(<< <<"offer">> >>),
   productSlug |-> JStr(<<"a", "b">>), urlSlug |-> JNull]
FlowItchItem ==
  [title_el |-> JStr(<<"a", "A">>), link_el |-> JStr(<<"/", "g">>)]
FlowSteamRow == [title_el |-> JStr(<<"A", "a">>), href |-> JStr(<<"/", "s">>)]
FlowArchiveDoc == [title |-> JStr(<<"b", "a", "a">>), identifier |-> JStr(<<"i">>)]

FlowResponses(kinds, item) ==
  {Failure(k) : k \in kinds} \cup {Ok(Repeat(item, n)) : n \in 0..MaxItems}

\* listings with malformed items
Listings(items) == StrUpTo(items, MaxElems)

EpicTitles == {JAbsent, JNull, JStr(<<" ", "A", "a">>)}
EpicPromotions ==
  {PromotionsNull} \cup
  {Promotions(o) : o \in {<<>>, << <<>> >>, << <<"offer">> >>,
                          << <<>>, <<"offer">> >>}}
EpicElements ==
  [title : EpicTitles, promotions : EpicPromotions,
   productSlug : {JNull}, urlSlug : {JStr(<<"u">>)}]
  \cup
  [title : {JStr(<<"a">>)}, promotions : {Promotions(<< <<"offer">> >>)},
   productSlug : {JNull, JStr(<<"/", "s", "/">>)}, urlSlug : {JNull}]
EpicResponses ==
  {Failure(k) : k \in JsonFailureKinds} \cup {Ok(b) : b \in Listings(EpicElements)}

ItchItems ==
  [title_el : {JAbsent, JStr(<<" ", "A", "a">>), JStr(<<"b">>)},
   link_el : {JAbsent, JNull, JStr(<<"/", "g">>)}]
ItchResponses ==
  {Failure(k) : k \in FailureKinds} \cup {Ok(b) : b \in Listings(ItchItems)}

SteamRows ==
  [title_el : {JAbsent, JStr(<<"A", "a", " ">>), JStr(<<"b">>)},
   href : {JNull, JStr(<<"/", "s">>)}]
SteamResponses ==
  {Failure(k) : k \in FailureKinds} \cup {Ok(b) : b \in Listings(SteamRows)}

ArchiveDocs ==
  [title : {JAbsent, JNull, JStr(<<"A", "a">>), JStr(<<"b">>)},
   identifier : {JAbsent, JStr(<<"i">>)}]
ArchiveResponses ==
  {Failure(k) : k \in JsonFailureKinds} \cup {Ok(b) : b \in Listings(ArchiveDocs)}

\* ------------------------------------------------------------------ states
InitWith(inputs) ==
  /\ q \in inputs
  /\ query = <<>>
  /\ pc = "start"
  /\ status = 0
  /\ calls = <<>>
  /\ inflight = {}
  /\ waited = [a \in AdapterSet |-> 0]
  /\ clock = 0
  /\ upstream = [a \in AdapterSet |-> NotYet]
  /\ sources = <<>>
  /\ response = NoResponse

Init == InitWith(SampleQueries)
InitQuery == InitWith(StrUpTo(Chars, MaxLen))

\* query = normalize_query(q); if not query: raise HTTPException(400)
Normalize ==
  /\ pc = "start"
  /\ query' = normalize_query(q)
  /\ IF query' = <<>>
     THEN status' = 400 /\ pc' = "rejected"
     ELSE status' = status /\ pc' = "call_epic"
  /\ UNCHANGED <<q, calls, inflight, waited, clock, upstream, sources, response>>

\* requests.get(...) is entered: the adapter's call is on the wire
Call(a, at, wait) ==
  /\ pc = at
  /\ calls' = Append(calls, a)
  /\ inflight' = inflight \cup {a}
  /\ pc' = wait
  /\ UNCHANGED <<q, query, status, waited, clock, upstream, sources, response>>

\* faulty variant: a failed adapter ends the fan-out
ReturnAborting(a, wait, resp, result, next) ==
  /\ pc = wait
  /\ a \in inflight
  /\ upstream' = [upstream EXCEPT ![a] = resp]
  /\ sources' = Append(sources, result)
  /\ inflight' = inflight \ {a}
  /\ pc' = IF resp.kind = "ok" THEN next ELSE "preview"
  /\ UNCHANGED <<q, query, status, calls, waited, clock, response>>

\* the adapter returns its SourceResult into the list `sources`
Return(a, wait, resp, result, next) ==
  /\ pc = wait
  /\ a \in inflight
  /\ upstream' = [upstream EXCEPT ![a] = resp]
  /\ sources' = Append(sources, result)
  /\ inflight' = inflight \ {a}
  /\ pc' = next
  /\ UNCHANGED <<q, query, status, calls, waited, clock, response>>

CallEpic == Call("epic", "call_epic", "wait_epic")
ReturnEpic(responses) ==
  \E resp \in responses :
     Return("epic", "wait_epic", resp, search_epic_free_games(query, resp),
            "call_itch")

\* faulty variant: the itch.io call goes out while the Epic call is still awaited
CallItchEarly ==
  /\ pc = "wait_epic"
  /\ "itch" \notin inflight
  /\ calls' = Append(calls, "itch")
  /\ inflight' = inflight \cup {"itch"}
  /\ UNCHANGED <<q, query, pc, status, waited, clock, upstream, sources,
                 response>>

CallItch == Call("itch", "call_itch", "wait_itch")
ReturnItch(responses) ==
  \E resp \in responses :
     Return("itch", "wait_itch", resp, search_itch_free(query, resp),
            "call_steam")

CallSteam == Call("steam", "call_steam", "wait_steam")
ReturnSteam(responses) ==
  \E resp \in responses :
     Return("steam", "wait_steam", resp, search_steam_free(query, resp),
            "call_archive")

CallArchive == Call("archive", "call_archive", "wait_archive")
ReturnArchive(responses) ==
  \E resp \in responses :
     Return("archive", "wait_archive", resp,
            search_internet_archive(query, resp), "preview")

\* the preview loop and the return of the response
Respond ==
  /\ pc = "preview"
  /\ sources' = Ordered(sources)
  /\ response' = [query |-> query, sources |-> sources']
  /\ status' = 200
  /\ pc' = "done"
  /\ UNCHANGED <<q, query, calls, inflight, waited, clock, upstream>>

\* time passes while a network call is awaited
Tick ==
  /\ inflight # {}
  /\ \A a \in inflight : waited[a] < MaxWait
  /\ waited' = [a \in AdapterSet |->
                  IF a \in inflight THEN waited[a] + 1 ELSE waited[a]]
  /\ clock' = clock + 1
  /\ UNCHANGED <<q, query, pc, status, calls, inflight, upstream, sources,
                 response>>

\* ---------------------------------------------------------- specifications
\* the request with well-formed listings of every length and every failure
Next ==
  \/ Normalize
  \/ CallEpic
  \/ ReturnEpic(FlowResponses(JsonFailureKinds, FlowEpicElement))
  \/ CallItch
  \/ ReturnItch(FlowResponses(FailureKinds, FlowItchItem))
  \/ CallSteam
  \/ ReturnSteam(FlowResponses(FailureKinds, FlowSteamRow))
  \/ CallArchive
  \/ ReturnArchive(FlowResponses(JsonFailureKinds, FlowArchiveDoc))
  \/ Respond

Spec == Init /\ [][Next]_vars

\* every raw query parameter up to MaxLen
NextQuery ==
  \/ Normalize
  \/ CallEpic
  \/ ReturnEpic(MinimalResponses)
  \/ CallItch
  \/ ReturnItch(MinimalResponses)
  \/ CallSteam
  \/ ReturnSteam(MinimalResponses)
  \/ CallArchive
  \/ ReturnArchive(MinimalResponses)
  \/ Respond

SpecQuery == InitQuery /\ [][NextQuery]_vars

\* the request with time passing while calls are awaited
NextTiming ==
  \/ Normalize
  \/ CallEpic
  \/ ReturnEpic(MinimalResponses)
  \/ CallItch
  \/ ReturnItch(MinimalResponses)
  \/ CallSteam
  \/ ReturnSteam(MinimalResponses)
  \/ CallArchive
  \/ ReturnArchive(MinimalResponses)
  \/ Respond
  \/ Tick

SpecTiming == Init /\ [][NextTiming]_vars

\* the Epic adapter on catalogs with malformed elements
NextEpic ==
  \/ Normalize
  \/ CallEpic
  \/ ReturnEpic(EpicResponses)

SpecEpic == Init /\ [][NextEpic]_vars

\* the itch.io adapter on pages with malformed cards
NextItch ==
  \/ Normalize
  \/ CallEpic
  \/ ReturnEpic(MinimalResponses)
  \/ CallItch
  \/ ReturnItch(ItchResponses)

SpecItch == Init /\ [][NextItch]_vars

\* the Steam adapter on pages with malformed rows
NextSteam ==
  \/ Normalize
  \/ CallEpic
  \/ ReturnEpic(MinimalResponses)
  \/ CallItch
  \/ ReturnItch(MinimalResponses)
  \/ CallSteam
  \/ ReturnSteam(SteamResponses)

SpecSteam == Init /\ [][NextSteam]_vars

\* the Archive adapter on result sets with malformed documents
NextArchive ==
  \/ Normalize
  \/ CallEpic
  \/ ReturnEpic(MinimalResponses)
  \/ CallItch
  \/ ReturnItch(MinimalResponses)
  \/ CallSteam
  \/ ReturnSteam(MinimalResponses)
  \/ CallArchive
  \/ ReturnArchive(ArchiveResponses)
  \/ Respond

SpecArchive == Init /\ [][NextArchive]_vars

\* ------------------------------------------------------------- properties
Range(f) == {f[i] : i \in DOMAIN f}
Returned(a) == upstream[a].kind # "none"
Failed(a) == upstream[a].kind \notin {"none", "ok"}
Succeeded(a) == upstream[a].kind = "ok"
SourceNames == <<EPIC_SOURCE, ITCH_SOURCE, STEAM_SOURCE, ARCHIVE_SOURCE>>
IsBlank(s) == \A i \in 1..Len(s) : IsSpace(s[i])

C2_FailureIsContained ==
  /\ \A i \in 1..Len(sources) :
       Failed(Adapters[i]) =>
         /\ sources[i].hits = <<>>
         /\ sources[i].total_hits = 0
         /\ sources[i].more_url # <<>>
  /\ pc = "done" => status = 200
  /\ pc \notin {"done", "rejected"} => ENABLED Next

C2_Witness ==
  /\ pc = "done"
  /\ status = 200
  /\ \A a \in AdapterSet : Failed(a)

AdapterResult(a) ==
  CASE a = "epic" -> search_epic_free_games(query, upstream[a])
    [] a = "itch" -> search_itch_free(query, upstream[a])
    [] a = "steam" -> search_steam_free(query, upstream[a])
    [] a = "archive" -> search_internet_archive(query, upstream[a])

\* C3: each source's result is determined by the query and that source's own
\* upstream response alone, so it is the same whether another adapter failed
\* or succeeded; and all four adapters have been invoked, in order, by the
\* time the response is built, whichever of them failed.
C3_AdaptersAreIndependent ==
  /\ \A i \in 1..Len(sources) :
       /\ Returned(Adapters[i])
       /\ sources[i] = IF pc = "done" THEN AddPreview(AdapterResult(Adapters[i]))
                       ELSE AdapterResult(Adapters[i])
  /\ pc \in {"preview", "done"} => calls = Adapters /\ Len(sources) = 4

C3_Witness ==
  /\ pc = "done"
  /\ Failed("itch")
  /\ response.sources[1].total_hits > 0
  /\ response.sources[3].total_hits > 0
  /\ response.sources[4].total_hits > 0

\* C4: in every source of every response, total_hits is the length of hits,
\* preview has min(3, total_hits) entries and preview is the prefix of hits
\* of that length.
C4_PreviewIsPrefix ==
  pc = "done" =>
    \A i \in 1..Len(response.sources) :
      LET s == response.sources[i]
      IN /\ s.total_hits = Len(s.hits)
         /\ Len(s.preview) = (IF s.total_hits < 3 THEN s.total_hits ELSE 3)
         /\ s.preview = SubSeq(s.hits, 1, Len(s.preview))

C4_Witness ==
  /\ pc = "done"
  /\ response.sources[1].total_hits > 3
  /\ response.sources[2].total_hits = 2
  /\ response.sources[3].total_hits = 3

\* C5: a raw query that is empty or all whitespace is rejected with status
\* 400, and on a rejected request no adapter was invoked: no call was issued,
\* none is in flight and no response body was built.
C5_BlankQueryRejectedBeforeCalls ==
  /\ (IsBlank(q) /\ pc # "start") => (pc = "rejected" /\ status = 400)
  /\ pc = "rejected" =>
       /\ calls = <<>>
       /\ inflight = {}
       /\ sources = <<>>
       /\ response = NoResponse
  /\ status = 400 => pc = "rejected"

C5_Witness == pc = "rejected" /\ status = 400 /\ Len(q) >= 2 /\ q[1] # q[2]

NoStrayWhitespace(s) ==
  /\ s # <<>> => ~IsSpace(s[1]) /\ ~IsSpace(s[Len(s)])
  /\ \A i \in 1..Len(s) : IsSpace(s[i]) => s[i] = " "
  /\ \A i \in 1..(Len(s) - 1) : ~(IsSpace(s[i]) /\ IsSpace(s[i + 1]))

\* C7: normalize_query is idempotent, and its result has no leading, no
\* trailing and no repeated internal whitespace.
C7_NormalizeIdempotent ==
  pc # "start" =>
    /\ normalize_query(query) = query
    /\ NoStrayWhitespace(query)

C7_Witness ==
  /\ pc # "start"
  /\ Len(q) = 4
  /\ IsSpace(q[2]) /\ IsSpace(q[3]) /\ q[2] # q[3]
  /\ Len(query) = 3
  /\ query[2] = " "

TotalWaited ==
  waited["epic"] + waited["itch"] + waited["steam"] + waited["archive"]
SlowestWaited ==
  CHOOSE m \in Range(waited) : \A a \in AdapterSet : waited[a] <= m

TitleContainsQuery(el) == el.title.kind = "str" /\ Matches(query, el.title.str)
HasActiveOffer(el) ==
  /\ el.promotions.kind = "obj"
  /\ \E i \in 1..Len(el.promotions.offers) : el.promotions.offers[i] # <<>>
FirstOfferActive(el) ==
  /\ el.promotions.kind = "obj"
  /\ Len(el.promotions.offers) >= 1
  /\ el.promotions.offers[1] # <<>>
EpicHitOf(el) == [title |-> Strip(el.title.str), url |-> EpicLink(el)]
HitsOfElements(els) == [i \in 1..Len(els) |-> EpicHitOf(els[i])]
EpicReturnedCatalog == Len(sources) >= 1 /\ Succeeded("epic")
HasNullTitle(body) == \E i \in 1..Len(body) : body[i].title.kind = "null"

\* C8: the hits of the Epic adapter on a successfully fetched catalog are
\* exactly the elements whose title contains the query, ignoring case, and
\* whose promotions carry at least one non-empty promotional-offers entry.
C8_HitIffTitleAndAnyActiveOffer ==
  EpicReturnedCatalog =>
    sources[1].hits =
      HitsOfElements(SelectSeq(upstream["epic"].body,
        LAMBDA el : TitleContainsQuery(el) /\ HasActiveOffer(el)))

\* C8, amended: the hits are exactly the elements whose title contains the
\* query, ignoring case, and whose FIRST promotional-offers entry is
\* non-empty (later entries are not looked at); and a catalog holding an
\* element with a null title has no hits at all.
C8_HitIffTitleAndFirstOfferActive ==
  EpicReturnedCatalog =>
    sources[1].hits =
      IF HasNullTitle(upstream["epic"].body) THEN <<>>
      ELSE HitsOfElements(SelectSeq(upstream["epic"].body,
             LAMBDA el : TitleContainsQuery(el) /\ FirstOfferActive(el)))

C8_Witness ==
  /\ EpicReturnedCatalog
  /\ Len(upstream["epic"].body) = 2
  /\ sources[1].total_hits = 1
  /\ \A i \in 1..2 : TitleContainsQuery(upstream["epic"].body[i])
  /\ \E i \in 1..2 : LET el == upstream["epic"].body[i]
                     IN HasActiveOffer(el) /\ ~FirstOfferActive(el)

\* a listing that has every field its adapter reads and matches the query
WellFormedMatch(a, item) ==
  CASE a = "epic" -> item.title.kind = "str" /\ EpicIsHit(item, query)
    [] a = "itch" -> ItchIsHit(item, query)
    [] a = "steam" -> SteamIsHit(item, query)
    [] a = "archive" ->
         ArchiveIsHit(item, query) /\ item.identifier.kind = "str"

MalformedSkipped(i) ==
  Succeeded(Adapters[i]) =>
    sources[i].total_hits =
      Len(SelectSeq(upstream[Adapters[i]].body,
                    LAMBDA item : WellFormedMatch(Adapters[i], item)))

\* C9: a malformed listing of an otherwise valid upstream response is
\* skipped on its own: in every adapter the hits are the well-formed
\* matching listings of the response, however many malformed ones it holds.
C9_MalformedItemSkipped == \A i \in 1..Len(sources) : MalformedSkipped(i)

\* C9 for the two storefront adapters alone (itch.io, Steam)
C9_StorefrontItemSkipped ==
  \A i \in 1..Len(sources) : Adapters[i] \in {"itch", "steam"} => MalformedSkipped(i)

\* C10: the Archive adapter's more_url is the search page for the query with
\* the software media-type filter, whether the upstream call failed or not.
C10_MoreUrlIndependentOfOutcome ==
  Len(sources) >= 4 =>
    sources[4].more_url =
      <<"https://archive.org/search.php?query=">> \o quote(query)
        \o MEDIATYPE_FILTER

====
